---- MODULE Spec2Model ----
(***************************************************************************)
(* A model of BitmapParser (bitmapparser.h, the version of June 26, 2019): *)
(* the 54-byte header codec, the compatibility check, the bottom-up pixel  *)
(* scan of import and save, and the geometric and colour transforms.       *)
(* One BitmapParser object is modelled; files are sequences of bytes.      *)
(***************************************************************************)
EXTENDS Integers, Sequences, FiniteSets, TLC

VARIABLES
    _fileptr,     \* "null", "open" (fopen succeeded, no fclose yet) or "closed"
    _header,      \* struct Header
    _infoheader,  \* struct InfoHeader
    _pixels,      \* std::vector<std::vector<Pixel> >, row 0 first
    _padding,     \* size_t _padding
    out,          \* the file that save writes: [exists, bytes, doc (the document written)]
    pos,          \* file position indicator of the stream of the last import or save
    exc,          \* exception thrown by the last call, or "none"
    oob,          \* TRUE when the last call indexed a vector outside its elements
    crashed,      \* TRUE once such an access has ended the process
    call,         \* the last call: [op, file, x_begin, y_begin, x_end, y_end]
    pre,          \* the document as it was before the last call
    prev,         \* the name of the call before the last one ("none" if not recorded)
    pre2,         \* the document as it was before that call
    other,        \* a second object built from the saved file: [made, doc, exc]
    tracing,      \* whether call, pre, prev and pre2 are being recorded
    nCrops,       \* crop calls made so far
    nColor,       \* colour transforms applied so far
    nCalls,       \* import/save calls made so far
    run           \* the crops that have just succeeded in a row: their number
                  \* and the width and height before the first of them

vars == <<_fileptr, _header, _infoheader, _pixels, _padding, out, pos, exc,
          oob, crashed, call, pre, prev, pre2, other, tracing, nCrops, nColor,
          nCalls, run>>

----------------------------------------------------------------------------
\* Bounds of the model.

\* Largest width and height of an input image.
MaxDim == 4
\* Largest value passed to crop for each of its four arguments.
MaxArg == 2
\* Most crop calls made on one object.
MaxCrops == 1
\* Most crop calls made on one object when nothing else is called on it.
MaxShrinks == 4
\* Most colour transforms applied to one object.
MaxColorOps == 2
\* Most import/save calls made on one object after its construction.
MaxCalls == 2

----------------------------------------------------------------------------
\* Constants of class BitmapParser.

CORRECT_SIG == 16973
CORRECT_TOTAL_HEADER_SIZE == 54
CORRECT_INFOHEADER_SIZE == 40
CORRECT_BITS_PER_PIXEL == 24
CORRECT_BYTES_PER_PIXEL == 3
CORRECT_PLANES == 1
CORRECT_COMPRESSION == 0
CORRECT_COLORS_USED == 0
CORRECT_IMPORTANT_COLORS == 0
BYTE == 1
WORD == 2
DWORD == 4

\* Every size in this model is far below 2^31, so no 32-bit field wraps.

----------------------------------------------------------------------------
\* The document: the four data members that import, save and the
\* transforms work on.

Header(sig, fsize, res, off) ==
    [signature |-> sig, file_size |-> fsize, reserved |-> res, data_offset |-> off]

Pixel(r, g, b) == [red |-> r, green |-> g, blue |-> b]

Document(h, ih, px, pad) ==
    [header |-> h, infoheader |-> ih, pixels |-> px, padding |-> pad]

Doc == Document(_header, _infoheader, _pixels, _padding)

\* Header(), InfoHeader(): value-initialised structs.
ZeroHeader == Header(0, 0, 0, 0)

ZeroInfoHeader ==
    [size |-> 0, width |-> 0, height |-> 0, planes |-> 0, bits_per_pixel |-> 0,
     compression |-> 0, image_size |-> 0, x_pixels_per_meter |-> 0,
     y_pixels_per_meter |-> 0, colors_used |-> 0, important_colors |-> 0]

\* BitmapParser::BitmapParser(): the members after the default constructor.
DefaultDocument == Document(ZeroHeader, ZeroInfoHeader, <<>>, 0)

----------------------------------------------------------------------------
\* Static helpers.

\* row_padding without the case of a remainder of zero.
row_padding_full(width) ==
    DWORD - ((width * CORRECT_BYTES_PER_PIXEL) % DWORD)

row_padding(width) ==
    LET remainder == (width * CORRECT_BYTES_PER_PIXEL) % DWORD
    IN  IF remainder = 0 THEN 0 ELSE DWORD - remainder

calculate_size(width, height) ==
    (((CORRECT_BYTES_PER_PIXEL * width) + row_padding(width)) * height)
        + CORRECT_TOTAL_HEADER_SIZE

\* compatible without its check of colors_used.
compatible_seven(h, ih) ==
    IF h.signature # CORRECT_SIG THEN FALSE
    ELSE IF h.data_offset # CORRECT_TOTAL_HEADER_SIZE THEN FALSE
    ELSE IF ih.size # CORRECT_INFOHEADER_SIZE THEN FALSE
    ELSE IF ih.planes # CORRECT_PLANES THEN FALSE
    ELSE IF ih.compression # CORRECT_COMPRESSION THEN FALSE
    ELSE IF ih.bits_per_pixel # CORRECT_BITS_PER_PIXEL THEN FALSE
    ELSE IF ih.important_colors # CORRECT_IMPORTANT_COLORS THEN FALSE
    ELSE TRUE

compatible(h, ih) ==
    IF h.signature # CORRECT_SIG THEN FALSE
    ELSE IF h.data_offset # CORRECT_TOTAL_HEADER_SIZE THEN FALSE
    ELSE IF ih.size # CORRECT_INFOHEADER_SIZE THEN FALSE
    ELSE IF ih.planes # CORRECT_PLANES THEN FALSE
    ELSE IF ih.compression # CORRECT_COMPRESSION THEN FALSE
    ELSE IF ih.bits_per_pixel # CORRECT_BITS_PER_PIXEL THEN FALSE
    ELSE IF ih.colors_used # CORRECT_COLORS_USED THEN FALSE
    ELSE IF ih.important_colors # CORRECT_IMPORTANT_COLORS THEN FALSE
    ELSE TRUE

----------------------------------------------------------------------------
\* Reading and writing bytes.  A file is a sequence of bytes 0..255; a
\* multi-byte field is read into and written from the member's own storage,
\* least significant byte first.

RECURSIVE le_value(_)
le_value(data) ==
    IF data = <<>> THEN 0 ELSE Head(data) + (256 * le_value(Tail(data)))

le_bytes(value, count) ==
    [i \in 1..count |-> (value \div (256 ^ (i - 1))) % 256]

\* The member (of `count` bytes) after fread has stored `data` over its
\* first Len(data) bytes.
stored(old, data, count) ==
    IF Len(data) = count
    THEN le_value(data)
    ELSE le_value(data) + ((old \div (256 ^ Len(data))) * (256 ^ Len(data)))

\* check_read that takes a missing byte as zero and goes on.
check_read_lenient(bytes, at, count) ==
    [data |-> [i \in 1..count |->
                  IF at + i <= Len(bytes) THEN bytes[at + i] ELSE 0],
     pos  |-> at + count,
     exc  |-> "none"]

\* fread of `count` bytes at position `at`: a short read sets the
\* end-of-file indicator and check_read throws EOFException.
check_read(bytes, at, count) ==
    LET avail == IF at < Len(bytes) THEN Len(bytes) - at ELSE 0
        got   == IF avail < count THEN avail ELSE count
    IN  [data |-> SubSeq(bytes, at + 1, at + got),
         pos  |-> at + got,
         exc  |-> IF got < count THEN "EOFException" ELSE "none"]

\* The check_read calls of a helper, one per field of `counts` bytes: the
\* results in order, ending with the first that throws.
RECURSIVE read_fields(_, _, _)
RECURSIVE read_more(_, _, _)
read_fields(bytes, at, counts) ==
    IF counts = <<>> THEN <<>>
    ELSE read_more(check_read(bytes, at, Head(counts)), bytes, Tail(counts))

read_more(first, bytes, counts) ==
    <<first>> \o (IF first.exc = "none"
                  THEN read_fields(bytes, first.pos, counts)
                  ELSE <<>>)

\* What the i-th read stored: nothing when it was not reached.
read_data(reads, i) == IF i <= Len(reads) THEN reads[i].data ELSE <<>>

header_fields == <<WORD, DWORD, DWORD, DWORD>>

\* The header after the reads of import_header: the signature is taken
\* from word_buf, first byte high, only when both bytes were read.
header_read(reads, h) ==
    [header |->
        Header(IF Len(read_data(reads, 1)) = WORD
               THEN reads[1].data[2] + (reads[1].data[1] * 256)
               ELSE h.signature,
               stored(h.file_size, read_data(reads, 2), DWORD),
               stored(h.reserved, read_data(reads, 3), DWORD),
               stored(h.data_offset, read_data(reads, 4), DWORD)),
     pos |-> reads[Len(reads)].pos,
     exc |-> reads[Len(reads)].exc]

import_header(bytes, h, at) ==
    header_read(read_fields(bytes, at, header_fields), h)

infoheader_fields ==
    <<DWORD, DWORD, DWORD, WORD, WORD, DWORD, DWORD, DWORD, DWORD, DWORD, DWORD>>

infoheader_read(reads, ih) ==
    [infoheader |->
        [size |-> stored(ih.size, read_data(reads, 1), DWORD),
         width |-> stored(ih.width, read_data(reads, 2), DWORD),
         height |-> stored(ih.height, read_data(reads, 3), DWORD),
         planes |-> stored(ih.planes, read_data(reads, 4), WORD),
         bits_per_pixel |-> stored(ih.bits_per_pixel, read_data(reads, 5), WORD),
         compression |-> stored(ih.compression, read_data(reads, 6), DWORD),
         image_size |-> stored(ih.image_size, read_data(reads, 7), DWORD),
         x_pixels_per_meter |->
             stored(ih.x_pixels_per_meter, read_data(reads, 8), DWORD),
         y_pixels_per_meter |->
             stored(ih.y_pixels_per_meter, read_data(reads, 9), DWORD),
         colors_used |-> stored(ih.colors_used, read_data(reads, 10), DWORD),
         important_colors |->
             stored(ih.important_colors, read_data(reads, 11), DWORD)],
     pos |-> reads[Len(reads)].pos,
     exc |-> reads[Len(reads)].exc]

import_infoheader(bytes, ih, at) ==
    infoheader_read(read_fields(bytes, at, infoheader_fields), ih)

\* write_header that writes the signature as it writes the other fields,
\* least significant byte first.
write_header_plain(h) ==
    le_bytes(h.signature, WORD) \o le_bytes(h.file_size, DWORD)
        \o le_bytes(h.reserved, DWORD) \o le_bytes(h.data_offset, DWORD)

\* char signature[] = "BM": the bytes 'B', 'M', whatever _header.signature holds.
write_header(h) ==
    <<66, 77>> \o le_bytes(h.file_size, DWORD) \o le_bytes(h.reserved, DWORD)
        \o le_bytes(h.data_offset, DWORD)

write_infoheader(ih) ==
    le_bytes(ih.size, DWORD) \o le_bytes(ih.width, DWORD)
        \o le_bytes(ih.height, DWORD) \o le_bytes(ih.planes, WORD)
        \o le_bytes(ih.bits_per_pixel, WORD) \o le_bytes(ih.compression, DWORD)
        \o le_bytes(ih.image_size, DWORD)
        \o le_bytes(ih.x_pixels_per_meter, DWORD)
        \o le_bytes(ih.y_pixels_per_meter, DWORD)
        \o le_bytes(ih.colors_used, DWORD)
        \o le_bytes(ih.important_colors, DWORD)

\* std::vector::resize: keeps the first rows, appends empty ones.
resize(pixels, count) ==
    IF count <= Len(pixels)
    THEN SubSeq(pixels, 1, count)
    ELSE pixels \o [i \in 1..(count - Len(pixels)) |-> <<>>]

\* The inner loop of import: one scanline pushed onto row `row` (counted
\* from 1), each pixel read as blue, then green, then red.
RECURSIVE import_row(_, _, _, _, _, _)
RECURSIVE pixel_read(_, _, _, _, _, _)
import_row(bytes, pixels, width, row, col, at) ==
    IF col >= width
    THEN [pixels |-> pixels, pos |-> at, exc |-> "none"]
    ELSE pixel_read(read_fields(bytes, at, <<BYTE, BYTE, BYTE>>),
                    bytes, pixels, width, row, col)

pixel_read(reads, bytes, pixels, width, row, col) ==
    IF reads[Len(reads)].exc # "none"
    THEN [pixels |-> pixels, pos |-> reads[Len(reads)].pos,
          exc |-> reads[Len(reads)].exc]
    ELSE import_row(bytes,
             [pixels EXCEPT ![row] =
                 Append(@, Pixel(reads[3].data[1], reads[2].data[1],
                                 reads[1].data[1]))],
             width, row, col + 1, reads[3].pos)

\* The outer loop of import storing the scanlines from row 0 downwards.
RECURSIVE import_rows_down(_, _, _, _, _, _)
RECURSIVE row_read_down(_, _, _, _, _)
import_rows_down(bytes, pixels, width, padding, row, at) ==
    IF row < 1
    THEN [pixels |-> pixels, pos |-> at, exc |-> "none"]
    ELSE row_read_down(import_row(bytes, pixels, width,
                                  (Len(pixels) + 1) - row, 0, at),
                       bytes, width, padding, row)

row_read_down(r, bytes, width, padding, row) ==
    IF r.exc # "none"
    THEN r
    ELSE import_rows_down(bytes, r.pixels, width, padding, row - 1,
                          r.pos + padding)

\* The outer loop of import: rows from the last to the first, fseek over
\* the row padding after each.
RECURSIVE import_rows(_, _, _, _, _, _)
RECURSIVE row_read(_, _, _, _, _)
import_rows(bytes, pixels, width, padding, row, at) ==
    IF row < 1
    THEN [pixels |-> pixels, pos |-> at, exc |-> "none"]
    ELSE row_read(import_row(bytes, pixels, width, row, 0, at),
                  bytes, width, padding, row)

\* The end of a row of import when it reads the padding and rejects a
\* padding byte that is not zero.
row_read_zero_padding(r, bytes, width, padding, row) ==
    IF r.exc # "none"
    THEN r
    ELSE IF \E i \in 1..padding :
                r.pos + i <= Len(bytes) /\ bytes[r.pos + i] # 0
    THEN [pixels |-> r.pixels, pos |-> r.pos + padding,
          exc |-> "InvalidFormatException"]
    ELSE import_rows(bytes, r.pixels, width, padding, row - 1, r.pos + padding)

row_read(r, bytes, width, padding, row) ==
    IF r.exc # "none"
    THEN r
    ELSE import_rows(bytes, r.pixels, width, padding, row - 1, r.pos + padding)

\* BitmapParser::import from the pixel loops on: header h and info header
\* ih are read and compatible.
import_pixels(h, ih, padding, pr) ==
    [doc |-> Document(h, ih, pr.pixels, padding),
     fileptr |-> IF pr.exc = "none" THEN "closed" ELSE "open",
     pos |-> pr.pos, exc |-> pr.exc]

\* import with the grid resized before the compatibility check.
import_resized(d, bytes, h, ir) ==
    IF ir.exc # "none"
    THEN [doc |-> Document(h, ir.infoheader, d.pixels, d.padding),
          fileptr |-> "open", pos |-> ir.pos, exc |-> ir.exc]
    ELSE IF ~compatible(h, ir.infoheader)
    THEN [doc |-> Document(h, ir.infoheader,
                           resize(d.pixels, ir.infoheader.height),
                           row_padding(ir.infoheader.width)),
          fileptr |-> "open", pos |-> ir.pos, exc |-> "InvalidFormatException"]
    ELSE import_pixels(h, ir.infoheader, row_padding(ir.infoheader.width),
             import_rows(bytes, resize(d.pixels, ir.infoheader.height),
                         ir.infoheader.width, row_padding(ir.infoheader.width),
                         ir.infoheader.height, ir.pos))

\* BitmapParser::import from the padding on: the info header has been read.
import_checked(d, bytes, h, ir) ==
    IF ir.exc # "none"
    THEN [doc |-> Document(h, ir.infoheader, d.pixels, d.padding),
          fileptr |-> "open", pos |-> ir.pos, exc |-> ir.exc]
    ELSE IF ~compatible(h, ir.infoheader)
    THEN [doc |-> Document(h, ir.infoheader, d.pixels,
                           row_padding(ir.infoheader.width)),
          fileptr |-> "open", pos |-> ir.pos, exc |-> "InvalidFormatException"]
    ELSE import_pixels(h, ir.infoheader, row_padding(ir.infoheader.width),
             import_rows(bytes, resize(d.pixels, ir.infoheader.height),
                         ir.infoheader.width, row_padding(ir.infoheader.width),
                         ir.infoheader.height, ir.pos))

\* BitmapParser::import from import_infoheader on: the header has been read.
import_headed(d, bytes, hr) ==
    IF hr.exc # "none"
    THEN [doc |-> Document(hr.header, d.infoheader, d.pixels, d.padding),
          fileptr |-> "open", pos |-> hr.pos, exc |-> hr.exc]
    ELSE import_checked(d, bytes, hr.header,
                        import_infoheader(bytes, d.infoheader, hr.pos))

\* BitmapParser::import on a document d and a file [exists, bytes]: the
\* document, the stream and the exception it leaves.
import_result(d, file) ==
    IF ~file.exists
    THEN [doc |-> d, fileptr |-> "null", pos |-> 0, exc |-> "FileOpenException"]
    ELSE import_headed(d, file.bytes, import_header(file.bytes, d.header, 0))

\* The padding of a row written as the one byte padding_byte.
padding_bytes_single(padding, junk) ==
    IF padding = 0 THEN <<>> ELSE <<0>>

\* The bytes fwrite takes from &padding_byte: the zero byte itself and,
\* for a count above one, the bytes that follow it in memory (`junk`).
padding_bytes(padding, junk) ==
    [i \in 1..padding |-> IF i = 1 THEN 0 ELSE junk]

\* save reads _pixels[row][col] for col < _infoheader.width whether or not
\* the row holds that many pixels.
save_reads_outside(d) ==
    \E row \in 1..Len(d.pixels) : Len(d.pixels[row]) < d.infoheader.width

save_pixel(d, row, col, junk) ==
    IF col <= Len(d.pixels[row])
    THEN d.pixels[row][col]
    ELSE Pixel(junk, junk, junk)

\* save_row writing each pixel as red, green, blue.
RECURSIVE save_row_rgb(_, _, _, _)
save_row_rgb(d, row, col, junk) ==
    IF col > d.infoheader.width
    THEN padding_bytes(d.padding, junk)
    ELSE <<save_pixel(d, row, col, junk).red, save_pixel(d, row, col, junk).green,
           save_pixel(d, row, col, junk).blue>>
             \o save_row_rgb(d, row, col + 1, junk)

RECURSIVE save_row(_, _, _, _)
save_row(d, row, col, junk) ==
    IF col > d.infoheader.width
    THEN padding_bytes(d.padding, junk)
    ELSE LET pix == save_pixel(d, row, col, junk)
         IN  <<pix.blue, pix.green, pix.red>> \o save_row(d, row, col + 1, junk)

RECURSIVE save_rows(_, _, _)
save_rows(d, row, junk) ==
    IF row < 1 THEN <<>>
    ELSE save_row(d, row, 1, junk) \o save_rows(d, row - 1, junk)

\* The bytes BitmapParser::save writes for document d.
save_bytes(d, junk) ==
    write_header(d.header) \o write_infoheader(d.infoheader)
        \o save_rows(d, Len(d.pixels), junk)

----------------------------------------------------------------------------
\* The transforms, as functions of the document.

\* Does the grid hold at least `rows` rows of at least `cols` pixels?
grid_holds(d, rows, cols) ==
    /\ Len(d.pixels) >= rows
    /\ \A r \in 1..rows : Len(d.pixels[r]) >= cols

\* The two's complement of each channel instead of its complement to 255.
invert_pixel_negated(pix) ==
    Pixel((256 - pix.red) % 256, (256 - pix.green) % 256, (256 - pix.blue) % 256)

invert_pixel(pix) == Pixel(255 - pix.red, 255 - pix.green, 255 - pix.blue)

\* invert_colors that also mirrors every row.
invert_colors_doc_mirrored(d) ==
    [d EXCEPT !.pixels =
        [r \in 1..Len(d.pixels) |->
            [c \in 1..Len(d.pixels[r]) |->
                invert_pixel(d.pixels[r][Len(d.pixels[r]) + 1 - c])]]]

invert_colors_doc(d) ==
    [d EXCEPT !.pixels =
        [r \in 1..Len(d.pixels) |->
            [c \in 1..Len(d.pixels[r]) |-> invert_pixel(d.pixels[r][c])]]]

\* The sum of the three quotients, without the quotient of the remainders.
grayscale_avg_quotients(pix) ==
    (pix.red \div CORRECT_BYTES_PER_PIXEL)
        + (pix.green \div CORRECT_BYTES_PER_PIXEL)
        + (pix.blue \div CORRECT_BYTES_PER_PIXEL)

\* The average of a sum of the three channels that is kept in 8 bits.
grayscale_avg_summed(pix) ==
    ((pix.red + pix.green + pix.blue) % 256) \div CORRECT_BYTES_PER_PIXEL

\* const uint8_t avg: the sum is computed in size_t and stored in 8 bits.
grayscale_avg(pix) ==
    ((pix.red \div CORRECT_BYTES_PER_PIXEL)
        + (pix.green \div CORRECT_BYTES_PER_PIXEL)
        + (pix.blue \div CORRECT_BYTES_PER_PIXEL)
        + (((pix.red % CORRECT_BYTES_PER_PIXEL)
            + (pix.green % CORRECT_BYTES_PER_PIXEL)
            + (pix.blue % CORRECT_BYTES_PER_PIXEL))
           \div CORRECT_BYTES_PER_PIXEL)) % 256

grayscale_pixel(pix) ==
    Pixel(grayscale_avg(pix), grayscale_avg(pix), grayscale_avg(pix))

grayscale_doc(d) ==
    [d EXCEPT !.pixels =
        [r \in 1..Len(d.pixels) |->
            [c \in 1..Len(d.pixels[r]) |-> grayscale_pixel(d.pixels[r][c])]]]

isolate_red_pixel(pix) == Pixel(pix.red, 0, 0)
isolate_green_pixel(pix) == Pixel(0, pix.green, 0)
isolate_blue_pixel(pix) == Pixel(0, 0, pix.blue)

isolate_red_doc(d) ==
    [d EXCEPT !.pixels =
        [r \in 1..Len(d.pixels) |->
            [c \in 1..Len(d.pixels[r]) |-> isolate_red_pixel(d.pixels[r][c])]]]

isolate_green_doc(d) ==
    [d EXCEPT !.pixels =
        [r \in 1..Len(d.pixels) |->
            [c \in 1..Len(d.pixels[r]) |-> isolate_green_pixel(d.pixels[r][c])]]]

isolate_blue_doc(d) ==
    [d EXCEPT !.pixels =
        [r \in 1..Len(d.pixels) |->
            [c \in 1..Len(d.pixels[r]) |-> isolate_blue_pixel(d.pixels[r][c])]]]

\* A sepia channel rounded to the nearest integer instead of truncated.
sepia_channel_rounded(thousandths, below) ==
    IF thousandths > 255000 THEN 255 ELSE (thousandths + 500) \div 1000

\* One sepia channel from the weighted sum in thousandths: clamped to 255.0,
\* then truncated.  The weights are not exact in binary, so a sum whose exact
\* value is a whole number may be computed just below it (`below`).
sepia_channel(thousandths, below) ==
    IF thousandths > 255000 THEN 255
    ELSE IF thousandths % 1000 = 0 /\ thousandths > 0 /\ below
    THEN (thousandths \div 1000) - 1
    ELSE thousandths \div 1000

sepia_pixel(pix, below) ==
    Pixel(sepia_channel((393 * pix.red) + (769 * pix.green) + (189 * pix.blue), below),
          sepia_channel((349 * pix.red) + (686 * pix.green) + (168 * pix.blue), below),
          sepia_channel((272 * pix.red) + (534 * pix.green) + (131 * pix.blue), below))

sepia_doc(d, below) ==
    [d EXCEPT !.pixels =
        [r \in 1..Len(d.pixels) |->
            [c \in 1..Len(d.pixels[r]) |-> sepia_pixel(d.pixels[r][c], below)]]]

Reverse(row) == [c \in 1..Len(row) |-> row[Len(row) + 1 - c]]

flip_horizontal_doc(d) ==
    [d EXCEPT !.pixels = [r \in 1..Len(d.pixels) |-> Reverse(d.pixels[r])]]

\* flip_vertical reads _pixels[0].size() and swaps the pixels of rows
\* start_idx and end_idx in each of that many columns.
flip_vertical_outside(d) ==
    \/ Len(d.pixels) = 0
    \/ \E r \in 1..Len(d.pixels) :
          /\ r # Len(d.pixels) + 1 - r
          /\ Len(d.pixels[r]) < Len(d.pixels[1])

flip_vertical_doc(d) ==
    IF Len(d.pixels) = 0 THEN d
    ELSE
    LET n == Len(d.pixels)
        cols == Len(d.pixels[1])
    IN  [d EXCEPT !.pixels =
            [r \in 1..n |->
                [c \in 1..Len(d.pixels[r]) |->
                    IF c <= cols /\ c <= Len(d.pixels[n + 1 - r])
                    THEN d.pixels[n + 1 - r][c]
                    ELSE d.pixels[r][c]]]]

\* transpose reads _pixels[row][col] for row < height and col < width.
transpose_outside(d) ==
    ~grid_holds(d, d.infoheader.height, d.infoheader.width)

\* transpose that does not recompute file_size.
transpose_doc_stale_size(d) ==
    Document(d.header,
             [d.infoheader EXCEPT !.width = d.infoheader.height,
                                  !.height = d.infoheader.width],
             [col \in 1..d.infoheader.width |->
                 [row \in 1..d.infoheader.height |->
                     IF row <= Len(d.pixels) /\ col <= Len(d.pixels[row])
                     THEN d.pixels[row][col]
                     ELSE Pixel(0, 0, 0)]],
             row_padding(d.infoheader.height))

\* transpose that takes the rows from the last to the first.
transpose_doc_turned(d) ==
    Document([d.header EXCEPT
                 !.file_size = calculate_size(d.infoheader.height,
                                              d.infoheader.width)],
             [d.infoheader EXCEPT !.width = d.infoheader.height,
                                  !.height = d.infoheader.width],
             [col \in 1..d.infoheader.width |->
                 [row \in 1..d.infoheader.height |->
                     IF d.infoheader.height + 1 - row <= Len(d.pixels)
                        /\ col <= Len(d.pixels[d.infoheader.height + 1 - row])
                     THEN d.pixels[d.infoheader.height + 1 - row][col]
                     ELSE Pixel(0, 0, 0)]],
             row_padding(d.infoheader.height))

\* transpose that keeps the cached padding of the old width.
transpose_doc_kept_padding(d) ==
    LET width  == d.infoheader.width
        height == d.infoheader.height
    IN  Document([d.header EXCEPT !.file_size = calculate_size(height, width)],
                 [d.infoheader EXCEPT !.width = height, !.height = width],
                 [col \in 1..width |->
                     [row \in 1..height |->
                         IF row <= Len(d.pixels) /\ col <= Len(d.pixels[row])
                         THEN d.pixels[row][col]
                         ELSE Pixel(0, 0, 0)]],
                 d.padding)

transpose_doc(d) ==
    LET width  == d.infoheader.width
        height == d.infoheader.height
        new_pixels ==
            [col \in 1..width |->
                [row \in 1..height |->
                    IF row <= Len(d.pixels) /\ col <= Len(d.pixels[row])
                    THEN d.pixels[row][col]
                    ELSE Pixel(0, 0, 0)]]
    IN  Document([d.header EXCEPT !.file_size = calculate_size(height, width)],
                 [d.infoheader EXCEPT !.width = height, !.height = width],
                 new_pixels,
                 row_padding(height))

rotate90_left_doc(d) == flip_vertical_doc(transpose_doc(d))

rotate90_right_doc(d) == flip_horizontal_doc(transpose_doc(d))

Least(a, b) == IF a < b THEN a ELSE b

\* The sanity checks of crop with x_end allowed to equal the width.
crop_throws_upto(d, x_begin, y_begin, x_end, y_end) ==
    IF ~(x_begin < d.infoheader.width /\ x_end <= d.infoheader.width) THEN TRUE
    ELSE IF ~(x_begin <= x_end) THEN TRUE
    ELSE IF ~(y_begin < d.infoheader.height /\ y_end < d.infoheader.height) THEN TRUE
    ELSE IF ~(y_begin <= y_end) THEN TRUE
    ELSE FALSE

\* The sanity checks of crop with y_end allowed to equal the height.
crop_throws_upto_height(d, x_begin, y_begin, x_end, y_end) ==
    IF ~(x_begin < d.infoheader.width /\ x_end < d.infoheader.width) THEN TRUE
    ELSE IF ~(x_begin <= x_end) THEN TRUE
    ELSE IF ~(y_begin < d.infoheader.height /\ y_end <= d.infoheader.height) THEN TRUE
    ELSE IF ~(y_begin <= y_end) THEN TRUE
    ELSE FALSE

\* The four sanity checks of crop, in the order of the code.
crop_throws(d, x_begin, y_begin, x_end, y_end) ==
    IF ~(x_begin < d.infoheader.width /\ x_end < d.infoheader.width) THEN TRUE
    ELSE IF ~(x_begin <= x_end) THEN TRUE
    ELSE IF ~(y_begin < d.infoheader.height /\ y_end < d.infoheader.height) THEN TRUE
    ELSE IF ~(y_begin <= y_end) THEN TRUE
    ELSE FALSE

\* The range constructors of crop read rows and pixels up to these ends.
crop_outside(d, x_begin, y_begin, x_end, y_end) ==
    \/ Len(d.pixels) < y_end
    \/ \E r \in (y_begin + 1)..Least(y_end, Len(d.pixels)) :
          Len(d.pixels[r]) < x_end

\* crop keeping the columns and rows up to and including x_end and y_end.
crop_doc_inclusive(d, x_begin, y_begin, x_end, y_end) ==
    LET new_width  == (x_end - x_begin) + 1
        new_height == (y_end - y_begin) + 1
        rows == SubSeq(d.pixels, y_begin + 1,
                       Least(y_begin + new_height, Len(d.pixels)))
        new_pixels ==
            [r \in 1..Len(rows) |->
                SubSeq(rows[r], x_begin + 1,
                       Least(x_begin + new_width, Len(rows[r])))]
    IN  Document([d.header EXCEPT
                     !.file_size = calculate_size(new_width, new_height)],
                 [d.infoheader EXCEPT !.width = new_width, !.height = new_height],
                 new_pixels,
                 row_padding(new_width))

crop_doc(d, x_begin, y_begin, x_end, y_end) ==
    LET new_width  == x_end - x_begin
        new_height == y_end - y_begin
        rows == SubSeq(d.pixels, y_begin + 1,
                       Least(y_begin + new_height, Len(d.pixels)))
        new_pixels ==
            [r \in 1..Len(rows) |->
                SubSeq(rows[r], x_begin + 1,
                       Least(x_begin + new_width, Len(rows[r])))]
    IN  Document([d.header EXCEPT
                     !.file_size = calculate_size(new_width, new_height)],
                 [d.infoheader EXCEPT !.width = new_width, !.height = new_height],
                 new_pixels,
                 row_padding(new_width))

----------------------------------------------------------------------------
\* Input files.  Each is laid out as the format prescribes: the 14-byte
\* header with the signature bytes first, the 40-byte info header, then the
\* scanlines from the bottom row up, each pixel as blue, green, red and
\* each scanline filled to a multiple of four bytes.

\* The pixel at (row, col) of the input images, all of them different.
ImagePixel(row, col) ==
    IF row = 0 /\ col = 0 THEN Pixel(10, 20, 30)
    ELSE IF row = 0 /\ col = 1 THEN Pixel(0, 128, 255)
    ELSE IF row = 1 /\ col = 0 THEN Pixel(255, 255, 255)
    ELSE Pixel((37 * row) + (11 * col), 200 - (50 * row) + (3 * col),
               (60 * col) + row)

Image(width, height) ==
    [r \in 1..height |-> [c \in 1..width |-> ImagePixel(r - 1, c - 1)]]

GoodHeader(width, height) ==
    Header(CORRECT_SIG, calculate_size(width, height), 0,
           CORRECT_TOTAL_HEADER_SIZE)

GoodInfoHeader(width, height) ==
    [size |-> CORRECT_INFOHEADER_SIZE, width |-> width, height |-> height,
     planes |-> CORRECT_PLANES, bits_per_pixel |-> CORRECT_BITS_PER_PIXEL,
     compression |-> CORRECT_COMPRESSION,
     image_size |-> calculate_size(width, height) - CORRECT_TOTAL_HEADER_SIZE,
     x_pixels_per_meter |-> 2835, y_pixels_per_meter |-> 2835,
     colors_used |-> CORRECT_COLORS_USED,
     important_colors |-> CORRECT_IMPORTANT_COLORS]

RECURSIVE Scanlines(_, _, _)
Scanlines(image, row, fill) ==
    IF row < 1 THEN <<>>
    ELSE LET line == image[row]
             RECURSIVE Bgr(_)
             Bgr(c) == IF c > Len(line) THEN <<>>
                       ELSE <<line[c].blue, line[c].green, line[c].red>> \o Bgr(c + 1)
         IN  Bgr(1) \o [i \in 1..row_padding(Len(line)) |-> fill]
                 \o Scanlines(image, row - 1, fill)

FileBytes(h, ih, image, fill) ==
    <<h.signature \div 256, h.signature % 256>>
        \o le_bytes(h.file_size, 4) \o le_bytes(h.reserved, 4)
        \o le_bytes(h.data_offset, 4)
        \o le_bytes(ih.size, 4) \o le_bytes(ih.width, 4) \o le_bytes(ih.height, 4)
        \o le_bytes(ih.planes, 2) \o le_bytes(ih.bits_per_pixel, 2)
        \o le_bytes(ih.compression, 4) \o le_bytes(ih.image_size, 4)
        \o le_bytes(ih.x_pixels_per_meter, 4) \o le_bytes(ih.y_pixels_per_meter, 4)
        \o le_bytes(ih.colors_used, 4) \o le_bytes(ih.important_colors, 4)
        \o Scanlines(image, Len(image), fill)

GoodFile(width, height) ==
    FileBytes(GoodHeader(width, height), GoodInfoHeader(width, height),
              Image(width, height), 0)

\* One well-formed file for every width and height up to MaxDim.
GoodFiles ==
    [k \in 1..((MaxDim + 1) * (MaxDim + 1)) |->
        GoodFile((k - 1) % (MaxDim + 1), (k - 1) \div (MaxDim + 1))]

\* Files of a 1 x 2 image that fail one compatibility check each.
BadFiles ==
    LET h == GoodHeader(1, 2)
        ih == GoodInfoHeader(1, 2)
        im == Image(1, 2)
    IN  << FileBytes([h EXCEPT !.signature = 19778], ih, im, 0),
           FileBytes([h EXCEPT !.data_offset = 138], ih, im, 0),
           FileBytes(h, [ih EXCEPT !.size = 124], im, 0),
           FileBytes(h, [ih EXCEPT !.planes = 0], im, 0),
           FileBytes(h, [ih EXCEPT !.compression = 1], im, 0),
           FileBytes(h, [ih EXCEPT !.bits_per_pixel = 8], im, 0),
           FileBytes(h, [ih EXCEPT !.colors_used = 256], im, 0),
           FileBytes(h, [ih EXCEPT !.important_colors = 1], im, 0) >>

\* Compatible files of a 1 x 2 image whose unchecked fields, padding bytes
\* or length are unusual: sizes that disagree with the data and two bytes
\* appended; padding bytes that are not zero.
OddFiles ==
    LET h == GoodHeader(1, 2)
        ih == GoodInfoHeader(1, 2)
        im == Image(1, 2)
    IN  << FileBytes([h EXCEPT !.file_size = 70000, !.reserved = 513],
                     [ih EXCEPT !.image_size = 0, !.x_pixels_per_meter = 0],
                     im, 0) \o <<0, 0>>,
           FileBytes(h, ih, im, 171) >>

\* The well-formed 1 x 2 file (62 bytes) cut short.
CutLengths == <<1, 3, 30, 56, 57, 60, 61>>

CutFiles ==
    [k \in 1..Len(CutLengths) |-> SubSeq(GoodFile(1, 2), 1, CutLengths[k])]

\* One well-formed file of black pixels for every width and height.
PlainImage(width, height) ==
    [r \in 1..height |-> [c \in 1..width |-> Pixel(0, 0, 0)]]

PlainFiles ==
    [k \in 1..((MaxDim + 1) * (MaxDim + 1)) |->
        FileBytes(GoodHeader((k - 1) % (MaxDim + 1), (k - 1) \div (MaxDim + 1)),
                  GoodInfoHeader((k - 1) % (MaxDim + 1), (k - 1) \div (MaxDim + 1)),
                  PlainImage((k - 1) % (MaxDim + 1), (k - 1) \div (MaxDim + 1)),
                  0)]

\* The channel values of the pixels that the colour transforms are tried
\* on: the ends of the range, every residue modulo 3 at both ends, and the
\* values of the worked examples.
Levels == {0, 1, 2, 10, 20, 30, 128, 255}

\* Every pixel over Levels, and every gray from black to white.
PixelInputs ==
    {Pixel(r, g, b) : r \in Levels, g \in Levels, b \in Levels}
        \cup {Pixel(c, c, c) : c \in 0..255}

\* The well-formed file of the 1 x 1 image that holds pix.
PixelFile(pix) ==
    FileBytes(GoodHeader(1, 1), GoodInfoHeader(1, 1), <<<<pix>>>>, 0)

\* The 54 header bytes of the file with bits_per_pixel = 8, and no more.
BadCutFiles == << SubSeq(BadFiles[6], 1, CORRECT_TOTAL_HEADER_SIZE) >>

InputFiles ==
    GoodFiles \o BadFiles \o OddFiles \o CutFiles \o BadCutFiles \o PlainFiles

\* File name 0 is the file that save writes; the others are input files,
\* the last of them the files of black pixels.
FileNames == 0..(Len(InputFiles) - Len(PlainFiles))

PlainNames == (Len(InputFiles) - Len(PlainFiles) + 1)..Len(InputFiles)

FileNamed(name) ==
    IF name = 0
    THEN [exists |-> out.exists, bytes |-> out.bytes]
    ELSE [exists |-> TRUE, bytes |-> InputFiles[name]]

----------------------------------------------------------------------------
\* The state machine.

GeometricOps ==
    {"flip_horizontal", "flip_vertical", "transpose", "rotate90_left",
     "rotate90_right"}

Call(op, file, x_begin, y_begin, x_end, y_end) ==
    [op |-> op, file |-> file, x_begin |-> x_begin, y_begin |-> y_begin,
     x_end |-> x_end, y_end |-> y_end]

SetDoc(d) ==
    /\ _header' = d.header
    /\ _infoheader' = d.infoheader
    /\ _pixels' = d.pixels
    /\ _padding' = d.padding

\* The last call and the document before it; for two geometric transforms
\* in a row, also the one before and the document before that.
NoRun == [count |-> 0, width |-> 0, height |-> 0]

\* The record of the call c, made once the call has set exc and crashed.
Remember(c) ==
    /\ UNCHANGED tracing
    /\ run' = IF c.op = "crop" /\ exc' = "none" /\ ~crashed'
              THEN [count  |-> run.count + 1,
                    width  |-> IF run.count = 0 THEN _infoheader.width
                               ELSE run.width,
                    height |-> IF run.count = 0 THEN _infoheader.height
                               ELSE run.height]
              ELSE NoRun
    /\ IF tracing
       THEN /\ call' = c
            /\ pre' = Doc
            /\ prev' = IF c.op \in GeometricOps /\ call.op \in GeometricOps
                       THEN call.op ELSE "none"
            /\ pre2' = IF c.op \in GeometricOps /\ call.op \in GeometricOps
                       THEN pre ELSE DefaultDocument
       ELSE UNCHANGED <<call, pre, prev, pre2>>

NoFile == [exists |-> FALSE, bytes |-> <<>>, doc |-> DefaultDocument]

NoOther == [made |-> FALSE, doc |-> DefaultDocument, exc |-> "none"]

\* The object a constructor leaves when it returns normally with result r.
ObjectFrom(r, recording) ==
            /\ r.exc = "none"
            /\ _fileptr = r.fileptr
            /\ _header = r.doc.header
            /\ _infoheader = r.doc.infoheader
            /\ _pixels = r.doc.pixels
            /\ _padding = r.doc.padding
            /\ pos = r.pos
            /\ out = NoFile
            /\ exc = "none"
            /\ oob = FALSE
            /\ crashed = FALSE
            /\ call = Call("BitmapParser", 0, 0, 0, 0, 0)
            /\ pre = DefaultDocument
            /\ prev = "none"
            /\ pre2 = DefaultDocument
            /\ other = NoOther
            /\ tracing = recording
            /\ nCrops = 0
            /\ nColor = 0
            /\ nCalls = 0
            /\ run = NoRun

\* The object after BitmapParser() (name 0) or after BitmapParser(filename)
\* on an input file that it accepts.
Constructed(names, recording) ==
    \E name \in names :
      \E r \in {IF name = 0
                THEN [doc |-> DefaultDocument, fileptr |-> "null", pos |-> 0,
                      exc |-> "none"]
                ELSE import_result(DefaultDocument,
                                   [exists |-> TRUE, bytes |-> InputFiles[name]])} :
            ObjectFrom(r, recording)

Init == Constructed(FileNames, TRUE)

\* A transform that throws nothing: the document becomes d; `outside` says
\* whether it indexed outside the grid, and `dies` whether that access
\* ended the process.
Transformed(op, d, outside, dies) ==
    /\ ~crashed
    /\ SetDoc(d)
    /\ exc' = "none"
    /\ oob' = outside
    /\ crashed' = (outside /\ dies)
    /\ Remember(Call(op, 0, 0, 0, 0, 0))
    /\ UNCHANGED <<_fileptr, out, pos, other, nCalls>>

Geometric(op, d, outside, dies) ==
    /\ Transformed(op, d, outside, dies)
    /\ UNCHANGED <<nCrops, nColor>>

Outcomes(outside) == IF outside THEN BOOLEAN ELSE {FALSE}

flip_horizontal ==
    Geometric("flip_horizontal", flip_horizontal_doc(Doc), FALSE, FALSE)

flip_vertical ==
    \E dies \in Outcomes(flip_vertical_outside(Doc)) :
        Geometric("flip_vertical", flip_vertical_doc(Doc),
                  flip_vertical_outside(Doc), dies)

transpose ==
    \E dies \in Outcomes(transpose_outside(Doc)) :
        Geometric("transpose", transpose_doc(Doc), transpose_outside(Doc), dies)

rotate90_left ==
    \E outside \in {transpose_outside(Doc)
                        \/ flip_vertical_outside(transpose_doc(Doc))} :
        \E dies \in Outcomes(outside) :
            Geometric("rotate90_left", rotate90_left_doc(Doc), outside, dies)

rotate90_right ==
    \E dies \in Outcomes(transpose_outside(Doc)) :
        Geometric("rotate90_right", rotate90_right_doc(Doc),
                  transpose_outside(Doc), dies)

Cropping(most) ==
    /\ ~crashed
    /\ nCrops < most
    /\ \E x_begin \in 0..MaxArg, y_begin \in 0..MaxArg,
          x_end \in 0..MaxArg, y_end \in 0..MaxArg :
        LET throws == crop_throws(Doc, x_begin, y_begin, x_end, y_end)
            outside == ~throws /\ crop_outside(Doc, x_begin, y_begin, x_end, y_end)
        IN  /\ nCrops' = nCrops + 1
            /\ \E dies \in Outcomes(outside) :
                  /\ oob' = outside
                  /\ crashed' = (outside /\ dies)
            /\ IF throws
               THEN /\ exc' = "out_of_range"
                    /\ UNCHANGED <<_header, _infoheader, _pixels, _padding>>
               ELSE /\ exc' = "none"
                    /\ SetDoc(crop_doc(Doc, x_begin, y_begin, x_end, y_end))
            /\ Remember(Call("crop", 0, x_begin, y_begin, x_end, y_end))
            /\ UNCHANGED <<_fileptr, out, pos, other, nCalls, nColor>>

crop == Cropping(MaxCrops)

\* A colour transform: the range-for loops visit the pixels the grid holds.
Coloured(op, d) ==
    /\ nColor < MaxColorOps
    /\ nColor' = nColor + 1
    /\ Transformed(op, d, FALSE, FALSE)
    /\ UNCHANGED nCrops

invert_colors == Coloured("invert_colors", invert_colors_doc(Doc))

grayscale == Coloured("grayscale", grayscale_doc(Doc))

sepia == \E below \in BOOLEAN : Coloured("sepia", sepia_doc(Doc, below))

isolate_red == Coloured("isolate_red", isolate_red_doc(Doc))

isolate_green == Coloured("isolate_green", isolate_green_doc(Doc))

isolate_blue == Coloured("isolate_blue", isolate_blue_doc(Doc))

\* The geometric transforms: an object, once constructed, under any
\* sequence of flips, transpositions and rotations.
Next ==
    \/ flip_horizontal
    \/ flip_vertical
    \/ transpose
    \/ rotate90_left
    \/ rotate90_right

Spec == Init /\ [][Next]_vars

\* crop alone.
NextCrop == crop

SpecCrop == Init /\ [][NextCrop]_vars

\* The colour transforms alone.
NextColor ==
    \/ invert_colors
    \/ grayscale
    \/ sepia
    \/ isolate_red
    \/ isolate_green
    \/ isolate_blue

SpecColor == Init /\ [][NextColor]_vars

\* The colour transforms on the object constructed from a file of one
\* pixel, for every pixel of PixelInputs.
InitPixel ==
    \E pix \in PixelInputs :
      \E r \in {import_result(DefaultDocument,
                              [exists |-> TRUE, bytes |-> PixelFile(pix)])} :
            ObjectFrom(r, TRUE)

SpecPixel == InitPixel /\ [][NextColor]_vars

\* The whole transform engine on the images of one colour and the
\* default-constructed object, without the record of the calls.
InitEngine == Constructed({0} \cup PlainNames, FALSE)

NextEngine ==
    \/ flip_horizontal
    \/ flip_vertical
    \/ transpose
    \/ rotate90_left
    \/ rotate90_right
    \/ crop
    \/ invert_colors
    \/ grayscale
    \/ sepia
    \/ isolate_red
    \/ isolate_green
    \/ isolate_blue

SpecEngine == InitEngine /\ [][NextEngine]_vars

\* crop after crop on the images of one colour and the default-constructed
\* object, without the record of the calls.
NextShrink == Cropping(MaxShrinks)

SpecShrink == InitEngine /\ [][NextShrink]_vars

----------------------------------------------------------------------------
\* Reading and writing files.

\* Values of the bytes that follow padding_byte in memory, and of pixels
\* read past the end of a row.
JunkBytes == {0, 204}

import ==
    /\ ~crashed
    /\ nCalls < MaxCalls
    /\ \E name \in FileNames :
      \E r \in {import_result(Doc, FileNamed(name))} :
        /\ nCalls' = nCalls + 1
        /\ SetDoc(r.doc)
        /\ _fileptr' = r.fileptr
        /\ pos' = r.pos
        /\ exc' = r.exc
        /\ oob' = FALSE
        /\ Remember(Call("import", name, 0, 0, 0, 0))
        /\ UNCHANGED <<out, other, crashed, nCrops, nColor>>

\* save that brings the file_size field up to date before it writes.
save_sizing ==
    /\ ~crashed
    /\ nCalls < MaxCalls
    /\ \E opened \in BOOLEAN :
        /\ nCalls' = nCalls + 1
        /\ _fileptr' = IF opened THEN "closed" ELSE "null"
        /\ _header' = [_header EXCEPT
                          !.file_size = calculate_size(_infoheader.width,
                                                       _infoheader.height)]
        /\ out' = IF ~opened THEN out
                  ELSE [exists |-> TRUE,
                        bytes |-> save_bytes(Doc, 0),
                        doc |-> Doc]
        /\ pos' = IF opened THEN Len(save_bytes(Doc, 0)) ELSE 0
        /\ exc' = IF opened THEN "none" ELSE "FileOpenException"
        /\ oob' = FALSE
        /\ other' = IF opened THEN NoOther ELSE other
        /\ Remember(Call("save", 0, 0, 0, 0, 0))
        /\ UNCHANGED <<_infoheader, _pixels, _padding, crashed, nCrops, nColor>>

\* save: fopen may fail; the bytes beside padding_byte are whatever they
\* are; a read past the end of a row may end the process before the
\* stream is flushed.
save ==
    /\ ~crashed
    /\ nCalls < MaxCalls
    /\ \E opened \in BOOLEAN :
      \E junk \in (IF _padding > 1 \/ save_reads_outside(Doc)
                   THEN JunkBytes ELSE {0}) :
        \E dies \in Outcomes(opened /\ save_reads_outside(Doc)) :
            /\ nCalls' = nCalls + 1
            /\ _fileptr' = IF ~opened THEN "null"
                           ELSE IF dies THEN "open" ELSE "closed"
            /\ out' = IF ~opened THEN out
                      ELSE [exists |-> TRUE,
                            bytes |-> IF dies THEN <<>> ELSE save_bytes(Doc, junk),
                            doc |-> Doc]
            /\ pos' = IF ~opened \/ dies THEN 0 ELSE Len(save_bytes(Doc, junk))
            /\ exc' = IF opened THEN "none" ELSE "FileOpenException"
            /\ oob' = (opened /\ save_reads_outside(Doc))
            /\ crashed' = dies
            /\ other' = IF opened THEN NoOther ELSE other
            /\ Remember(Call("save", 0, 0, 0, 0, 0))
            /\ UNCHANGED <<_header, _infoheader, _pixels, _padding, nCrops, nColor>>

\* BitmapParser other(filename) on the file save wrote: a second object,
\* default-initialised and then importing it.
BitmapParser_filename ==
    /\ ~crashed
    /\ ~other.made
    /\ out.exists
    /\ \E r \in {import_result(DefaultDocument, FileNamed(0))} :
        /\ other' = [made |-> TRUE, doc |-> r.doc, exc |-> r.exc]
        /\ UNCHANGED <<_fileptr, _header, _infoheader, _pixels, _padding, out,
                       pos, exc, oob, crashed, call, pre, prev, pre2, tracing,
                       nCrops, nColor, nCalls, run>>

NextCodec ==
    \/ import
    \/ save
    \/ BitmapParser_filename

\* The codec starts from BitmapParser(), the default-constructed object.
InitCodec == Constructed({0}, TRUE)

SpecCodec == InitCodec /\ [][NextCodec]_vars

----------------------------------------------------------------------------
\* Properties.

\* The grid has height rows of width pixels, the cached padding is that of
\* the width, and file_size is the size computed from width and height.
Consistent(d) ==
    /\ Len(d.pixels) = d.infoheader.height
    /\ \A r \in 1..Len(d.pixels) : Len(d.pixels[r]) = d.infoheader.width
    /\ d.padding = row_padding(d.infoheader.width)
    /\ d.header.file_size = calculate_size(d.infoheader.width, d.infoheader.height)

\* The file read by the last call.
Source == FileNamed(call.file)

\* The header and info header that the first 54 bytes of a file hold.
SourceHeader(bytes) == import_header(bytes, ZeroHeader, 0).header

SourceInfoHeader(bytes) ==
    import_infoheader(bytes, ZeroInfoHeader, Len(write_header(ZeroHeader))).infoheader

\* C1: a compatible, consistent document that save has written is read back
\* by a fresh object without an exception and equal to it in header, info
\* header, padding and grid.
RoundTrip ==
    (/\ other.made
     /\ compatible(out.doc.header, out.doc.infoheader)
     /\ Consistent(out.doc))
    => (other.exc = "none" /\ other.doc = out.doc)

\* A 2 x 2 document, whose rows save fills with two bytes, read back.
RoundTripWitness ==
    /\ other.made
    /\ compatible(out.doc.header, out.doc.infoheader)
    /\ Consistent(out.doc)
    /\ out.doc.infoheader.width = 2
    /\ out.doc.infoheader.height = 2
    /\ out.bytes[Len(out.bytes)] # 0
    /\ other.doc = out.doc

\* C2: import of a file whose 54 header bytes are all there but fail the
\* compatibility check throws InvalidFormatException with the stream at 54
\* and the grid as it was before the call.
RejectsIncompatible ==
    (/\ call.op = "import"
     /\ Source.exists
     /\ Len(Source.bytes) >= CORRECT_TOTAL_HEADER_SIZE
     /\ ~compatible(SourceHeader(Source.bytes), SourceInfoHeader(Source.bytes)))
    => (/\ exc = "InvalidFormatException"
        /\ pos = CORRECT_TOTAL_HEADER_SIZE
        /\ _pixels = pre.pixels)

\* The file with bits_per_pixel = 8 imported into an object holding a grid.
RejectsIncompatibleWitness ==
    /\ call.op = "import"
    /\ Source.exists
    /\ Len(Source.bytes) > CORRECT_TOTAL_HEADER_SIZE
    /\ SourceInfoHeader(Source.bytes).bits_per_pixel = 8
    /\ exc = "InvalidFormatException"
    /\ pos = CORRECT_TOTAL_HEADER_SIZE
    /\ Len(pre.pixels) = 3
    /\ _pixels = pre.pixels

EightEqualities(h, ih) ==
    /\ h.signature = 16973
    /\ h.data_offset = 54
    /\ ih.size = 40
    /\ ih.planes = 1
    /\ ih.compression = 0
    /\ ih.bits_per_pixel = 24
    /\ ih.colors_used = 0
    /\ ih.important_colors = 0

\* Values given to the fields that compatible does not read.
UncheckedValues == {0, 1, 54, 70000}

\* C3: compatible is true exactly when the eight equalities hold, whatever
\* file_size, reserved, image_size, width, height and the resolutions are,
\* and an import it has rejected holds the header fields as the file has them.
CompatibleIffEight ==
    /\ compatible(_header, _infoheader) <=> EightEqualities(_header, _infoheader)
    /\ \A v \in UncheckedValues :
          compatible([_header EXCEPT !.file_size = v, !.reserved = v],
                     [_infoheader EXCEPT !.image_size = v, !.width = v,
                                         !.height = v,
                                         !.x_pixels_per_meter = v,
                                         !.y_pixels_per_meter = v])
              = compatible(_header, _infoheader)
    /\ (call.op = "import" /\ exc = "InvalidFormatException")
          => /\ _header.signature = (Source.bytes[1] * 256) + Source.bytes[2]
             /\ SubSeq(write_header(_header), 3, 14) = SubSeq(Source.bytes, 3, 14)
             /\ write_infoheader(_infoheader) = SubSeq(Source.bytes, 15, 54)

\* A header rejected for colors_used alone.
CompatibleIffEightWitness ==
    /\ call.op = "import"
    /\ exc = "InvalidFormatException"
    /\ _infoheader.colors_used = 256
    /\ EightEqualities(_header, [_infoheader EXCEPT !.colors_used = 0])
    /\ ~compatible(_header, _infoheader)

\* C4: crop throws std::out_of_range exactly when not
\* (x_begin <= x_end < width and y_begin <= y_end < height), and then
\* leaves the document as it was.
CropRejection ==
    (call.op = "crop")
    => (/\ (exc = "out_of_range")
              <=> ~(/\ call.x_begin <= call.x_end
                    /\ call.x_end < pre.infoheader.width
                    /\ call.y_begin <= call.y_end
                    /\ call.y_end < pre.infoheader.height)
        /\ (exc = "out_of_range") => (Doc = pre))

\* crop with x_end equal to the width of a grid that has pixels.
CropRejectionWitness ==
    /\ call.op = "crop"
    /\ exc = "out_of_range"
    /\ call.x_begin < call.x_end
    /\ call.x_end = pre.infoheader.width
    /\ call.y_begin <= call.y_end
    /\ call.y_end < pre.infoheader.height
    /\ Len(_pixels) > 0
    /\ Doc = pre

\* C5: a successful crop keeps columns x_begin..x_end and rows
\* y_begin..y_end: the grid has x_end - x_begin + 1 columns and
\* y_end - y_begin + 1 rows and holds the old pixel at (x_end, y_end).
CropInclusive ==
    (call.op = "crop" /\ exc = "none")
    => (/\ Len(_pixels) = (call.y_end - call.y_begin) + 1
        /\ \A r \in 1..Len(_pixels) :
              Len(_pixels[r]) = (call.x_end - call.x_begin) + 1
        /\ _pixels[Len(_pixels)][(call.x_end - call.x_begin) + 1]
              = pre.pixels[call.y_end + 1][call.x_end + 1])

MetadataConsistency == [][Consistent(Doc) => Consistent(Doc')]_vars

\* A consistent 1 x 4 document after a crop and two colour transforms.
MetadataConsistencyWitness ==
    /\ Consistent(Doc)
    /\ nCrops = 1
    /\ nColor = 2
    /\ _infoheader.width = 1
    /\ _infoheader.height = 4
    /\ _header.file_size = 70
    /\ _pixels[1][1].red = 255

\* C8: transpose applied twice to a consistent document gives back its
\* grid, width, height, padding and file_size.
TransposeTwice ==
    (call.op = "transpose" /\ prev = "transpose" /\ Consistent(pre2))
    => (/\ ~crashed
        /\ _pixels = pre2.pixels
        /\ _infoheader.width = pre2.infoheader.width
        /\ _infoheader.height = pre2.infoheader.height
        /\ _padding = pre2.padding
        /\ _header.file_size = pre2.header.file_size)

\* A 4 x 2 document transposed to 2 x 4 and back.
TransposeTwiceWitness ==
    /\ call.op = "transpose"
    /\ prev = "transpose"
    /\ Consistent(pre2)
    /\ pre2.infoheader.width = 4
    /\ pre2.infoheader.height = 2
    /\ pre.infoheader.width = 2
    /\ pre.padding = 2
    /\ pre.header.file_size = 86
    /\ Doc = pre2

\* C9: rotate90_left followed by rotate90_right returns, for any document,
\* and gives back its grid with width, height, padding and file_size as
\* computed for that grid.
RotateLeftRight ==
    /\ (call.op \in {"rotate90_left", "rotate90_right"}) => ~crashed
    /\ (call.op = "rotate90_right" /\ prev = "rotate90_left")
          => (/\ _pixels = pre2.pixels
              /\ _infoheader.width = pre2.infoheader.width
              /\ _infoheader.height = pre2.infoheader.height
              /\ _padding = row_padding(_infoheader.width)
              /\ _header.file_size
                    = calculate_size(_infoheader.width, _infoheader.height))

\* C10: flip_horizontal applied twice leaves any document as it was, and
\* so does flip_vertical applied twice; each call returns.
FlipTwice ==
    /\ (call.op \in {"flip_horizontal", "flip_vertical"}) => ~crashed
    /\ (call.op = "flip_horizontal" /\ prev = "flip_horizontal") => (Doc = pre2)
    /\ (call.op = "flip_vertical" /\ prev = "flip_vertical") => (Doc = pre2)

\* C11: whenever import or save has opened the file and then returned or
\* thrown, the handle has been closed.
HandleReleased ==
    (call.op \in {"import", "save"} /\ ~crashed /\ exc # "FileOpenException")
        => (_fileptr = "closed")

\* C12: after an import that threw EOFException or IOException while reading
\* the pixel data, the grid is complete (height rows of width pixels) or is
\* the grid the object held before the call.
NoPartialGrid ==
    (/\ call.op = "import"
     /\ exc \in {"EOFException", "IOException"}
     /\ pos >= CORRECT_TOTAL_HEADER_SIZE)
    => \/ _pixels = pre.pixels
       \/ /\ Len(_pixels) = _infoheader.height
          /\ \A r \in 1..Len(_pixels) : Len(_pixels[r]) = _infoheader.width

\* C13: in a file that save has written, each of the padding bytes after
\* the 3 * width pixel bytes of a row is zero, for padding 1, 2 and 3.
PaddingZero ==
    (/\ out.exists
     /\ Len(out.bytes)
           = CORRECT_TOTAL_HEADER_SIZE
               + (Len(out.doc.pixels)
                    * ((3 * out.doc.infoheader.width) + out.doc.padding)))
    => \A k \in 0..(Len(out.doc.pixels) - 1) :
          \A i \in 1..out.doc.padding :
              out.bytes[CORRECT_TOTAL_HEADER_SIZE
                          + (k * ((3 * out.doc.infoheader.width) + out.doc.padding))
                          + (3 * out.doc.infoheader.width) + i] = 0

\* The pixel whose blue, green and red bytes follow position `at` of a file.
ScanlinePixel(bytes, at) == Pixel(bytes[at + 3], bytes[at + 2], bytes[at + 1])

\* Bytes from the start of one scanline to the start of the next.
Stride(width) == (3 * width) + ((4 - ((3 * width) % 4)) % 4)

\* C14: after a successful import the k-th scanline of the file is in grid
\* row height-1-k, each pixel taken as blue, green, red, and the stream has
\* passed the padding after every scanline.
DecodeLayout ==
    (call.op = "import" /\ exc = "none")
    => /\ Len(_pixels) = _infoheader.height
       /\ \A k \in 0..(_infoheader.height - 1) :
             /\ Len(_pixels[_infoheader.height - k]) >= _infoheader.width
             /\ \A c \in 1..(_infoheader.width) :
                   _pixels[_infoheader.height - k]
                          [(Len(_pixels[_infoheader.height - k])
                              - _infoheader.width) + c]
                     = ScanlinePixel(Source.bytes,
                           54 + (k * Stride(_infoheader.width)) + (3 * (c - 1)))
       /\ pos = 54 + (_infoheader.height * Stride(_infoheader.width))

\* The 1 x 2 file whose padding bytes are 171, read into an empty object:
\* the first scanline (white) is row 1, the second is row 0.
DecodeLayoutWitness ==
    /\ call.op = "import"
    /\ exc = "none"
    /\ pre.pixels = <<>>
    /\ Len(Source.bytes) = 62
    /\ SubSeq(Source.bytes, 55, 62) = <<255, 255, 255, 171, 30, 20, 10, 171>>
    /\ _pixels = <<<<Pixel(10, 20, 30)>>, <<Pixel(255, 255, 255)>>>>
    /\ pos = 62

\* C15: for a document whose grid has height rows of width pixels and whose
\* padding is row_padding(width), save writes calculate_size(width, height)
\* = 54 + height * (3 * width + row_padding(width)) bytes, the file_size of
\* a consistent document.
EncodedLength ==
    (/\ out.exists
     /\ Len(out.doc.pixels) = out.doc.infoheader.height
     /\ \A r \in 1..Len(out.doc.pixels) :
           Len(out.doc.pixels[r]) = out.doc.infoheader.width
     /\ out.doc.padding = row_padding(out.doc.infoheader.width))
    => /\ Len(out.bytes)
             = calculate_size(out.doc.infoheader.width, out.doc.infoheader.height)
       /\ Len(out.bytes)
             = 54 + (out.doc.infoheader.height
                       * ((3 * out.doc.infoheader.width)
                            + row_padding(out.doc.infoheader.width)))
       /\ Consistent(out.doc) => (Len(out.bytes) = out.doc.header.file_size)

\* A consistent 3 x 2 document written as 54 + 2 * (9 + 3) bytes.
EncodedLengthWitness ==
    /\ out.exists
    /\ Consistent(out.doc)
    /\ out.doc.infoheader.width = 3
    /\ out.doc.infoheader.height = 2
    /\ Len(out.bytes) = 78
    /\ out.doc.header.file_size = 78

\* C16: for every width w, row_padding(w) is in 0..3, makes 3 * w +
\* row_padding(w) a multiple of four and equals (4 - (3 * w mod 4)) mod 4;
\* so is the padding import caches for the width it has read.
PaddingFormula ==
    /\ \A w \in {_infoheader.width} \cup (0..(4 * MaxDim)) :
          /\ row_padding(w) \in 0..3
          /\ ((3 * w) + row_padding(w)) % 4 = 0
          /\ row_padding(w) = (4 - ((3 * w) % 4)) % 4
    /\ (call.op = "import" /\ exc \in {"none", "InvalidFormatException"})
          => /\ _padding \in 0..3
             /\ ((3 * _infoheader.width) + _padding) % 4 = 0
             /\ _padding = (4 - ((3 * _infoheader.width) % 4)) % 4

\* import of an image of width 4: no padding.
PaddingFormulaWitness ==
    /\ call.op = "import"
    /\ exc = "none"
    /\ _infoheader.width = 4
    /\ _infoheader.height = 1
    /\ _padding = 0
    /\ row_padding(_infoheader.width) = 0

\* The length a file must have to hold the header and every pixel triple
\* of an image of the width and height in info header ih.
NeededBytes(ih) ==
    IF ih.width = 0 \/ ih.height = 0
    THEN 54
    ELSE 54 + ((ih.height - 1) * Stride(ih.width)) + (3 * ih.width)

\* Does the file end before its header and pixel triples are complete?
EndsEarly(bytes) ==
    \/ Len(bytes) < 54
    \/ Len(bytes) < NeededBytes(SourceInfoHeader(bytes))

\* The complete pixel triples that a file of a width x height image with
\* `avail` bytes after the header supplies.
TriplesSupplied(avail, width) ==
    ((avail \div Stride(width)) * width)
        + Least(width, (avail % Stride(width)) \div 3)

RECURSIVE PixelCount(_)
PixelCount(pixels) ==
    IF pixels = <<>> THEN 0 ELSE Len(Head(pixels)) + PixelCount(Tail(pixels))

\* C17 as stated: import of a file that ends before its 54 header bytes
\* and its height * width pixel triples are complete throws EOFException.
ShortReadsFatalAlways ==
    (call.op = "import" /\ Source.exists /\ EndsEarly(Source.bytes))
    => (exc = "EOFException")

\* C17, amended: import of a file that ends before its 54 header bytes are
\* complete, or whose header is compatible and that ends before its
\* height * width pixel triples are complete, throws EOFException, having
\* stored the complete triples the file supplies and nothing else.
ShortReadsFatal ==
    (/\ call.op = "import"
     /\ Source.exists
     /\ EndsEarly(Source.bytes)
     /\ \/ Len(Source.bytes) < 54
        \/ compatible(SourceHeader(Source.bytes), SourceInfoHeader(Source.bytes)))
    => /\ exc = "EOFException"
       /\ (Len(Source.bytes) < 54) => (_pixels = pre.pixels)
       /\ (Len(Source.bytes) >= 54)
             => (PixelCount(_pixels)
                   = PixelCount(resize(pre.pixels, _infoheader.height))
                       + TriplesSupplied(Len(Source.bytes) - 54, _infoheader.width))

\* The 1 x 2 file cut to 60 bytes, read into an empty object: the first
\* scanline is stored, the second pixel lacks its red byte.
ShortReadsFatalWitness ==
    /\ call.op = "import"
    /\ Source.exists
    /\ Len(Source.bytes) = 60
    /\ pre.pixels = <<>>
    /\ exc = "EOFException"
    /\ _pixels = <<<<>>, <<Pixel(255, 255, 255)>>>>
    /\ pos = 60

White == Pixel(255, 255, 255)

\* C18 as stated: sepia maps the pixel (255,255,255) to (255,255,255).
SepiaWhiteStays ==
    (call.op = "sepia" /\ exc = "none")
    => \A r \in 1..Len(pre.pixels) : \A c \in 1..Len(pre.pixels[r]) :
          (pre.pixels[r][c] = White) => (_pixels[r][c] = White)

\* C18, amended: sepia maps the pixel (255,255,255) to (255,255,238).  The
\* red and green sums, 344.505 and 306.765, exceed 255 and are clamped; the
\* blue sum, 238.935, does not and is truncated.
SepiaWhite ==
    (call.op = "sepia" /\ exc = "none")
    => /\ Len(_pixels) = Len(pre.pixels)
       /\ \A r \in 1..Len(pre.pixels) :
             /\ Len(_pixels[r]) = Len(pre.pixels[r])
             /\ \A c \in 1..Len(pre.pixels[r]) :
                   (pre.pixels[r][c] = White)
                       => /\ _pixels[r][c] = Pixel(255, 255, 238)
                          /\ (393 + 769 + 189) * 255 > 255000
                          /\ (349 + 686 + 168) * 255 > 255000
                          /\ ((272 + 534 + 131) * 255) \div 1000 = 238

SepiaWhiteWitness ==
    /\ call.op = "sepia"
    /\ exc = "none"
    /\ pre.pixels = <<<<White>>>>
    /\ _pixels = <<<<Pixel(255, 255, 238)>>>>

\* C19: grayscale sets the three channels of every pixel (r,g,b) to
\* avg = r/3 + g/3 + b/3 + ((r%3 + g%3 + b%3)/3) in integer division, which
\* lies in 0..255; (10,20,30) becomes (20,20,20).
GrayscaleAverage ==
    (call.op = "grayscale" /\ exc = "none")
    => /\ Len(_pixels) = Len(pre.pixels)
       /\ \A r \in 1..Len(pre.pixels) :
             /\ Len(_pixels[r]) = Len(pre.pixels[r])
             /\ \A c \in 1..Len(pre.pixels[r]) :
                   \E avg \in 0..255 :
                      /\ avg = (pre.pixels[r][c].red \div 3)
                                 + (pre.pixels[r][c].green \div 3)
                                 + (pre.pixels[r][c].blue \div 3)
                                 + (((pre.pixels[r][c].red % 3)
                                      + (pre.pixels[r][c].green % 3)
                                      + (pre.pixels[r][c].blue % 3)) \div 3)
                      /\ _pixels[r][c] = Pixel(avg, avg, avg)
                      /\ (pre.pixels[r][c] = Pixel(10, 20, 30)) => (avg = 20)

GrayscaleAverageWitness ==
    /\ call.op = "grayscale"
    /\ exc = "none"
    /\ pre.pixels = <<<<Pixel(10, 20, 30)>>>>
    /\ _pixels = <<<<Pixel(20, 20, 20)>>>>

\* C20: invert_colors replaces every channel c of every pixel by 255 - c;
\* (0,128,255) becomes (255,127,0).
InvertChannels ==
    (call.op = "invert_colors" /\ exc = "none")
    => /\ Len(_pixels) = Len(pre.pixels)
       /\ \A r \in 1..Len(pre.pixels) :
             /\ Len(_pixels[r]) = Len(pre.pixels[r])
             /\ \A c \in 1..Len(pre.pixels[r]) :
                   /\ _pixels[r][c].red = 255 - pre.pixels[r][c].red
                   /\ _pixels[r][c].green = 255 - pre.pixels[r][c].green
                   /\ _pixels[r][c].blue = 255 - pre.pixels[r][c].blue
                   /\ (pre.pixels[r][c] = Pixel(0, 128, 255))
                         => (_pixels[r][c] = Pixel(255, 127, 0))

InvertChannelsWitness ==
    /\ call.op = "invert_colors"
    /\ exc = "none"
    /\ pre.pixels = <<<<Pixel(0, 128, 255)>>>>
    /\ _pixels = <<<<Pixel(255, 127, 0)>>>>

ColourOps ==
    {"invert_colors", "grayscale", "sepia", "isolate_red", "isolate_green",
     "isolate_blue"}

\* The value a colour transform gives a pixel, from the old value alone.
ColourOf(op, pix, below) ==
    IF op = "invert_colors"
    THEN Pixel(255 - pix.red, 255 - pix.green, 255 - pix.blue)
    ELSE IF op = "grayscale"
    THEN Pixel((pix.red + pix.green + pix.blue) \div 3,
               (pix.red + pix.green + pix.blue) \div 3,
               (pix.red + pix.green + pix.blue) \div 3)
    ELSE IF op = "sepia" THEN sepia_pixel(pix, below)
    ELSE IF op = "isolate_red" THEN Pixel(pix.red, 0, 0)
    ELSE IF op = "isolate_green" THEN Pixel(0, pix.green, 0)
    ELSE Pixel(0, 0, pix.blue)

\* C21: a colour transform leaves the header (file_size included), the
\* info header (width and height included), the cached padding and the
\* shape of the grid unchanged, and the new value of each pixel is a
\* function of the old value of the pixel at the same position.
ColourFrame ==
    (call.op \in ColourOps)
    => /\ exc = "none"
       /\ _header = pre.header
       /\ _infoheader = pre.infoheader
       /\ _padding = pre.padding
       /\ Len(_pixels) = Len(pre.pixels)
       /\ \A r \in 1..Len(pre.pixels) : Len(_pixels[r]) = Len(pre.pixels[r])
       /\ \E below \in BOOLEAN :
             \A r \in 1..Len(pre.pixels) : \A c \in 1..Len(pre.pixels[r]) :
                _pixels[r][c] = ColourOf(call.op, pre.pixels[r][c], below)

\* isolate_green on the 3 x 2 image.
ColourFrameWitness ==
    /\ call.op = "isolate_green"
    /\ pre.pixels = Image(3, 2)
    /\ _pixels # pre.pixels
    /\ _pixels[1][2] = Pixel(0, 128, 0)
    /\ _header = GoodHeader(3, 2)
    /\ _infoheader.width = 3
    /\ _infoheader.height = 2
    /\ _padding = 3

\* Does the grid of d have height rows of width pixels?
Shaped(d) ==
    /\ Len(d.pixels) = d.infoheader.height
    /\ \A r \in 1..Len(d.pixels) : Len(d.pixels[r]) = d.infoheader.width

\* C22: transpose on a grid of height rows and width columns gives a grid
\* of width rows and height columns with new[c][r] = old[r][c], swaps the
\* stored width and height, and sets padding to row_padding(new width) and
\* file_size to calculate_size(new width, new height).
TransposeResult ==
    (call.op = "transpose" /\ Shaped(pre))
    => /\ ~crashed
       /\ exc = "none"
       /\ Len(_pixels) = pre.infoheader.width
       /\ \A c \in 1..Len(_pixels) :
             /\ Len(_pixels[c]) = pre.infoheader.height
             /\ \A r \in 1..Len(_pixels[c]) : _pixels[c][r] = pre.pixels[r][c]
       /\ _infoheader.width = pre.infoheader.height
       /\ _infoheader.height = pre.infoheader.width
       /\ _padding = (4 - ((3 * _infoheader.width) % 4)) % 4
       /\ _header.file_size
            = 54 + (_infoheader.height * ((3 * _infoheader.width) + _padding))
       /\ _padding = row_padding(_infoheader.width)
       /\ _header.file_size = calculate_size(_infoheader.width, _infoheader.height)

\* The 3 x 2 image (padding 3) transposed to 2 x 3 (padding 2).
TransposeResultWitness ==
    /\ call.op = "transpose"
    /\ pre.pixels = Image(3, 2)
    /\ pre.padding = 3
    /\ Len(_pixels) = 3
    /\ _pixels[3][2] = pre.pixels[2][3]
    /\ _pixels[1] = <<Pixel(10, 20, 30), Pixel(255, 255, 255)>>
    /\ _infoheader.width = 2
    /\ _infoheader.height = 3
    /\ _padding = 2
    /\ _header.file_size = 78

\* C23: rotate90_left on a grid of h rows and w columns returns, having
\* read nothing outside the grid, a grid of w rows and h columns with
\* new[i][j] = old[j][w-1-i] (rows and columns counted from 0).
RotateLeftDefinition ==
    (call.op = "rotate90_left" /\ Shaped(pre))
    => /\ ~oob
       /\ ~crashed
       /\ Len(_pixels) = pre.infoheader.width
       /\ \A i \in 1..Len(_pixels) :
             /\ Len(_pixels[i]) = pre.infoheader.height
             /\ \A j \in 1..Len(_pixels[i]) :
                   _pixels[i][j] = pre.pixels[j][pre.infoheader.width + 1 - i]

\* C24 as stated: the 54 bytes that save writes decode through
\* import_header and import_infoheader to the header and info header of the
\* document, the signature included.
HeaderMirrorAlways ==
    (out.exists /\ Len(out.bytes) >= CORRECT_TOTAL_HEADER_SIZE)
    => /\ SourceHeader(out.bytes) = out.doc.header
       /\ SourceInfoHeader(out.bytes) = out.doc.infoheader

\* C24, amended: the 54 bytes that save writes decode to the info header
\* of the document and to its header with the signature 0x424D; they
\* decode to the header of the document when its signature is 0x424D.
HeaderMirror ==
    (out.exists /\ Len(out.bytes) >= CORRECT_TOTAL_HEADER_SIZE)
    => /\ SubSeq(out.bytes, 1, 2) = <<66, 77>>
       /\ SourceHeader(out.bytes) = [out.doc.header EXCEPT !.signature = 16973]
       /\ SourceInfoHeader(out.bytes) = out.doc.infoheader
       /\ (out.doc.header.signature = 16973)
             => (SourceHeader(out.bytes) = out.doc.header)

\* The document of the file whose file_size and reserved fields are 70000
\* and 513, saved: fields of several bytes that differ byte from byte.
HeaderMirrorWitness ==
    /\ out.exists
    /\ Len(out.bytes) >= CORRECT_TOTAL_HEADER_SIZE
    /\ out.doc.header.signature = 16973
    /\ out.doc.header.file_size = 70000
    /\ out.doc.header.reserved = 513
    /\ SubSeq(out.bytes, 1, 10) = <<66, 77, 112, 17, 1, 0, 1, 2, 0, 0>>
    /\ SourceHeader(out.bytes) = out.doc.header
    /\ SourceInfoHeader(out.bytes) = out.doc.infoheader

\* C25: after every import that returns normally, an import into an object
\* that already holds a decoded grid included, the grid has exactly height
\* rows and every row has exactly width pixels.
ShapeAfterImport ==
    (call.op = "import" /\ exc = "none") => Shaped(Doc)

\* C26: save, whether it returns normally or throws, leaves the header,
\* the info header, the cached padding and the pixel grid as they were
\* before the call.
SaveReadOnly ==
    (call.op = "save")
    => /\ _header = pre.header
       /\ _infoheader = pre.infoheader
       /\ _padding = pre.padding
       /\ _pixels = pre.pixels
       /\ (exc = "none" /\ ~crashed) => (out.doc = pre)

\* save of a decoded 2 x 2 document that throws FileOpenException.
SaveReadOnlyWitness ==
    /\ call.op = "save"
    /\ exc = "FileOpenException"
    /\ pre.pixels = Image(2, 2)
    /\ pre.padding = 2
    /\ Doc = pre

\* C27: on every reachable document, the default-constructed one and one
\* cropped to zero rows included, every transform completes using only
\* accesses inside the grid and never indexes row 0 of a grid without rows.
TransformsTotal == ~oob /\ ~crashed

GrayscaleFloor ==
    [][(nColor' = nColor + 1 /\ call'.op = "grayscale")
        => /\ Len(_pixels') = Len(_pixels)
           /\ \A r \in 1..Len(_pixels) :
                 /\ Len(_pixels'[r]) = Len(_pixels[r])
                 /\ \A c \in 1..Len(_pixels[r]) :
                       /\ _pixels'[r][c].red
                            = (_pixels[r][c].red + _pixels[r][c].green
                                 + _pixels[r][c].blue) \div 3
                       /\ _pixels'[r][c].green = _pixels'[r][c].red
                       /\ _pixels'[r][c].blue = _pixels'[r][c].red
           /\ (call.op = "grayscale") => (Doc' = Doc)]_vars

\* grayscale of (2,2,255): the quotients add up to 85, the remainders to
\* one more, and floor(259 / 3) = 86.
GrayscaleFloorWitness ==
    /\ call.op = "grayscale"
    /\ pre.pixels = <<<<Pixel(2, 2, 255)>>>>
    /\ _pixels = <<<<Pixel(86, 86, 86)>>>>
    /\ grayscale_doc(Doc) = Doc

\* Is byte i (counted from 1) of a file of the given width a padding byte?
IsPadding(i, width) ==
    /\ width > 0
    /\ i > 54
    /\ ((i - 55) % Stride(width)) >= 3 * width

\* The file with the header and pixel bytes of `bytes`, every padding byte
\* set to `fill`, and `tail` after the last scanline.
Variant(bytes, ih, fill, tail) ==
    [i \in 1..(54 + (ih.height * Stride(ih.width))) |->
        IF IsPadding(i, ih.width) THEN fill ELSE bytes[i]] \o tail

PaddingFills == {0, 171}

TrailingBytes == {<<>>, <<0, 0>>, <<9>>}

\* C30: a source whose 54 header bytes are compatible and that supplies
\* every pixel triple is imported without an exception, whatever file_size
\* and image_size say; and every source with the same header and pixel
\* bytes, whatever its padding bytes hold and whatever bytes follow its
\* last scanline, imports to the same document.
PaddingIndependence ==
    (/\ call.op = "import"
     /\ Source.exists
     /\ Len(Source.bytes) >= 54
     /\ compatible(SourceHeader(Source.bytes), SourceInfoHeader(Source.bytes))
     /\ Len(Source.bytes) >= NeededBytes(SourceInfoHeader(Source.bytes)))
    => /\ exc = "none"
       /\ \A fill \in PaddingFills : \A tail \in TrailingBytes :
             \E v \in {import_result(pre,
                          [exists |-> TRUE,
                           bytes |-> Variant(Source.bytes, _infoheader,
                                             fill, tail)])} :
                /\ v.exc = "none"
                /\ v.doc = Doc

\* The 1 x 2 file whose file_size says 70000 and whose image_size says 0,
\* with two bytes after its last scanline, imported: the document is the
\* one its variant with other padding and no trailing bytes decodes to.
PaddingIndependenceWitness ==
    /\ call.op = "import"
    /\ exc = "none"
    /\ Len(Source.bytes) = 64
    /\ _header.file_size = 70000
    /\ _infoheader.image_size = 0
    /\ _padding = 1
    /\ Variant(Source.bytes, _infoheader, 171, <<>>) # Source.bytes
    /\ Len(Variant(Source.bytes, _infoheader, 171, <<>>)) = 62
    /\ import_result(pre, [exists |-> TRUE,
                           bytes |-> Variant(Source.bytes, _infoheader,
                                             171, <<>>)]).doc = Doc

====
